---------------------------- MODULE Spec2Model ----------------------------
(***************************************************************************)
(* Model of gestao_produtos.py: the Produto entity, the ProductCollection  *)
(* catalogue, the loader/writer and the menu shell.                        *)
(*                                                                         *)
(* Text is modelled as a sequence of one-character strings, so that the    *)
(* conversions (split, strip, int(), Decimal(), str()) are computed the    *)
(* way the program computes them.                                          *)
(***************************************************************************)
EXTENDS Integers, Sequences, FiniteSets, TLC

VARIABLES
    produtos,     \* produtos._prods: the catalogue's members in insertion order
    lista,        \* produtos.list: the text accumulated by grava
    encontrados,  \* _prods of the collection returned by the last pesquisa
    fich,         \* the text of the file 'produtos.csv'
    pc,           \* "start" | "menu" | "exited" | "crashed" | "lib"
    ngrava,       \* number of grava calls made so far
    ret           \* the last call: [op, arg, err, val]

vars == <<produtos, lista, encontrados, fich, pc, ngrava, ret>>

-----------------------------------------------------------------------------
(* Bounds of the model *)

\* grava calls explored in one behaviour (produtos.list grows with each)
MaxGrava == 2

-----------------------------------------------------------------------------
(* Characters and text *)

Lowers == <<"a","b","c","d","e","f","g","h","i","j","k","l","m",
            "n","o","p","q","r","s","t","u","v","w","x","y","z">>
Uppers == <<"A","B","C","D","E","F","G","H","I","J","K","L","M",
            "N","O","P","Q","R","S","T","U","V","W","X","Y","Z">>
DigitChars == <<"0","1","2","3","4","5","6","7","8","9">>

Range(s) == {s[i] : i \in 1..Len(s)}

LowerSet == Range(Lowers)
UpperSet == Range(Uppers)
DigitSet == Range(DigitChars)

UpperMap == [c \in LowerSet |-> Uppers[CHOOSE i \in 1..26 : Lowers[i] = c]]
LowerMap == [c \in UpperSet |-> Lowers[CHOOSE i \in 1..26 : Uppers[i] = c]]
DigitMap == [c \in DigitSet |-> (CHOOSE i \in 1..10 : DigitChars[i] = c) - 1]

IsDigit(c) == c \in DigitSet

DigitVal(c) == DigitMap[c]

\* str.isspace for the characters of the model
IsSpace(c) == c \in {" ", "\n"}

\* one character of str.upper()
UpperChar(c) == IF c \in LowerSet THEN UpperMap[c] ELSE c

LowerChar(c) == IF c \in UpperSet THEN LowerMap[c] ELSE c

\* str.upper()
upper(s) == [i \in 1..Len(s) |-> UpperChar(s[i])]

lower(s) == [i \in 1..Len(s) |-> LowerChar(s[i])]

RECURSIVE lstrip(_)
lstrip(s) ==
    IF s # <<>> /\ IsSpace(Head(s)) THEN lstrip(Tail(s)) ELSE s

RECURSIVE rstrip(_)
rstrip(s) ==
    IF s # <<>> /\ IsSpace(s[Len(s)])
    THEN rstrip(SubSeq(s, 1, Len(s) - 1))
    ELSE s

\* str.strip()
strip(s) == rstrip(lstrip(s))

\* str.count(c)
count(s, c) == Cardinality({i \in 1..Len(s) : s[i] = c})

\* str.index(c), 1-based, for a character that occurs
index(s, c) == CHOOSE i \in 1..Len(s) : s[i] = c /\ \A j \in 1..(i - 1) : s[j] # c

\* str.split(c): the fields between the separators, empty fields kept
RECURSIVE split(_, _)
split(s, c) ==
    IF count(s, c) = 0
    THEN <<s>>
    ELSE <<SubSeq(s, 1, index(s, c) - 1)>>
            \o split(SubSeq(s, index(s, c) + 1, Len(s)), c)

\* the longest prefix of decimal digits
RECURSIVE TakeDigits(_)
TakeDigits(s) ==
    IF s # <<>> /\ IsDigit(Head(s))
    THEN <<Head(s)>> \o TakeDigits(Tail(s))
    ELSE <<>>

RECURSIVE DigitsVal(_)
DigitsVal(s) ==
    IF s = <<>> THEN 0
    ELSE DigitsVal(SubSeq(s, 1, Len(s) - 1)) * 10 + DigitVal(s[Len(s)])

RECURSIVE NatStr(_)
NatStr(n) ==
    IF n < 10 THEN <<DigitChars[n + 1]>>
    ELSE NatStr(n \div 10) \o <<DigitChars[(n % 10) + 1]>>

\* str() of an int
str_int(n) == IF n < 0 THEN <<"-">> \o NatStr(-n) ELSE NatStr(n)

\* int() of a str: surrounding whitespace, an optional sign, then digits
\* (digit-group underscores, which int() also accepts, are not among the
\* characters of the model)
int(s) ==
    LET t == strip(s)
        signed == t # <<>> /\ Head(t) \in {"+", "-"}
        d == IF signed THEN Tail(t) ELSE t
    IN  IF d # <<>> /\ TakeDigits(d) = d
        THEN [ok |-> TRUE,
              val |-> IF signed /\ Head(t) = "-" THEN -DigitsVal(d) ELSE DigitsVal(d)]
        ELSE [ok |-> FALSE, val |-> 0]

-----------------------------------------------------------------------------
(* decimal.Decimal: [sign, int, exp, special], as the library stores it:   *)
(* the value is (-1)^sign * int * 10^exp; special is "" for a finite       *)
(* number, "F" for Infinity, "n" for NaN and "N" for sNaN.                 *)

RECURSIVE StripZeros(_)
StripZeros(s) ==
    IF Len(s) > 1 /\ Head(s) = "0" THEN StripZeros(Tail(s)) ELSE s

Zeros(n) == [i \in 1..n |-> "0"]

\* Decimal(str): surrounding whitespace, an optional sign, then
\* digits[.digits][E[sign]digits] | .digits[E..] | Inf | Infinity | NaN | sNaN
\* (a NaN is modelled without diagnostic digits)
dec(s) ==
    LET t == strip(s)
        signed == t # <<>> /\ Head(t) \in {"+", "-"}
        sign == IF signed /\ Head(t) = "-" THEN 1 ELSE 0
        r == IF signed THEN Tail(t) ELSE t
        lr == lower(r)
        bad == [ok |-> FALSE, val |-> [sign |-> 0, int |-> <<"0">>, exp |-> 0, special |-> "n"]]
        hasE == count(lr, "e") > 0
        mant == IF hasE THEN SubSeq(r, 1, index(lr, "e") - 1) ELSE r
        expo == IF hasE THEN SubSeq(r, index(lr, "e") + 1, Len(r)) ELSE <<"0">>
        intpart == TakeDigits(mant)
        rest == SubSeq(mant, Len(intpart) + 1, Len(mant))
        hasDot == rest # <<>> /\ Head(rest) = "."
        fracpart == IF hasDot THEN TakeDigits(Tail(rest)) ELSE <<>>
        mantOk == /\ intpart \o fracpart # <<>>
                  /\ IF hasDot THEN Len(rest) = 1 + Len(fracpart) ELSE rest = <<>>
        expSigned == expo # <<>> /\ Head(expo) \in {"+", "-"}
        expDigits == IF expSigned THEN Tail(expo) ELSE expo
        expOk == expDigits # <<>> /\ TakeDigits(expDigits) = expDigits
    IN  IF lr \in {<<"i","n","f">>, <<"i","n","f","i","n","i","t","y">>}
        THEN [ok |-> TRUE, val |-> [sign |-> sign, int |-> <<"0">>, exp |-> 0, special |-> "F"]]
        ELSE IF lr = <<"n","a","n">>
        THEN [ok |-> TRUE, val |-> [sign |-> sign, int |-> <<>>, exp |-> 0, special |-> "n"]]
        ELSE IF lr = <<"s","n","a","n">>
        THEN [ok |-> TRUE, val |-> [sign |-> sign, int |-> <<>>, exp |-> 0, special |-> "N"]]
        ELSE IF mantOk /\ expOk
        THEN [ok |-> TRUE,
              val |-> [sign |-> sign,
                       int |-> StripZeros(intpart \o fracpart),
                       exp |-> int(expo).val - Len(fracpart),
                       special |-> ""]]
        ELSE bad

\* str(Decimal): Decimal.__str__ (plain notation when exp <= 0 and the
\* number is not smaller than 1E-6, scientific notation otherwise)
str_dec(d) ==
    LET sign == IF d.sign = 1 THEN <<"-">> ELSE <<>>
        n == Len(d.int)
        leftdigits == d.exp + n
        dotplace == IF d.exp <= 0 /\ leftdigits > -6 THEN leftdigits ELSE 1
        intpart == IF dotplace <= 0 THEN <<"0">>
                   ELSE IF dotplace >= n THEN d.int \o Zeros(dotplace - n)
                   ELSE SubSeq(d.int, 1, dotplace)
        fracpart == IF dotplace <= 0 THEN <<".">> \o Zeros(-dotplace) \o d.int
                    ELSE IF dotplace >= n THEN <<>>
                    ELSE <<".">> \o SubSeq(d.int, dotplace + 1, n)
        e == leftdigits - dotplace
        exp == IF e = 0 THEN <<>>
               ELSE <<"E">> \o (IF e < 0 THEN <<"-">> ELSE <<"+">>)
                            \o NatStr(IF e < 0 THEN -e ELSE e)
    IN  IF d.special = "F" THEN sign \o <<"I","n","f","i","n","i","t","y">>
        ELSE IF d.special = "n" THEN sign \o <<"N","a","N">> \o d.int
        ELSE IF d.special = "N" THEN sign \o <<"s","N","a","N">> \o d.int
        ELSE sign \o intpart \o fracpart \o exp

\* Decimal < 0: "raises" for a NaN (decimal.InvalidOperation), else the
\* sign of a nonzero number
dec_lt0(d) ==
    IF d.special \in {"n", "N"} THEN "raises"
    ELSE IF d.sign = 1 /\ (d.special = "F" \/ d.int # <<"0">>) THEN "true"
    ELSE "false"

-----------------------------------------------------------------------------
(* Exceptions: each kind with the classes an except clause matches it by *)

Mro(err) ==
    CASE err = "InvalidProdAttribute" -> {"InvalidProdAttribute", "ValueError", "Exception"}
      [] err = "ValueError" -> {"ValueError", "Exception"}
      [] err = "IndexError" -> {"IndexError", "LookupError", "Exception"}
      [] err = "decimal.InvalidOperation" ->
            {"decimal.InvalidOperation", "decimal.DecimalException",
             "ArithmeticError", "Exception"}
      [] err = "DuplicateValue" -> {"DuplicateValue", "Exception"}
      [] err = "InvalidOperation" -> {"InvalidOperation", "Exception"}
      [] err = "FileNotFound" -> {"FileNotFound", "Exception"}
      [] OTHER -> {}

isinstance(err, cls) == cls \in Mro(err)

-----------------------------------------------------------------------------
(* Produto *)

PRODUCT_TYPES == {<<"A","L">>, <<"D","L">>, <<"F","R","L">>}

NoProd == [id |-> -1, nome |-> <<>>, tipo |-> <<>>, quantidade |-> -1,
           preco |-> [sign |-> 0, int |-> <<"0">>, exp |-> 0, special |-> "n"]]

Raise(kind) == [err |-> kind, prod |-> NoProd]

\* Produto.__init__: the checks in the program's order, then the fields
Produto(id_, nome, tipo, quantidade, preco) ==
    IF id_ < 0 \/ Len(str_int(id_)) # 5 THEN Raise("InvalidProdAttribute")
    ELSE IF nome = <<>> THEN Raise("InvalidProdAttribute")
    ELSE IF upper(tipo) \notin PRODUCT_TYPES THEN Raise("InvalidProdAttribute")
    ELSE IF quantidade < 0 THEN Raise("InvalidProdAttribute")
    ELSE IF dec_lt0(preco) = "raises" THEN Raise("decimal.InvalidOperation")
    ELSE IF dec_lt0(preco) = "true" THEN Raise("InvalidProdAttribute")
    ELSE [err |-> "none",
          prod |-> [id |-> id_, nome |-> nome, tipo |-> upper(tipo),
                    quantidade |-> quantidade, preco |-> preco]]

\* the call cls(...) of from_csv once the fields are converted: the
\* arguments are evaluated left to right, so the first field that is missing
\* or does not convert decides the exception (n is the number of fields)
from_attrs(n, id_, nome, tipo, quantidade, preco) ==
    IF ~id_.ok THEN Raise("ValueError")
    ELSE IF n < 4 THEN Raise("IndexError")
    ELSE IF ~quantidade.ok THEN Raise("ValueError")
    ELSE IF n < 5 THEN Raise("IndexError")
    ELSE IF ~preco.ok THEN Raise("decimal.InvalidOperation")
    ELSE Produto(id_.val, nome, tipo, quantidade.val, preco.val)

\* the fields of a record, attrs[i] for i within the split and <<>> beyond
field(attrs, i) == IF i <= Len(attrs) THEN attrs[i] ELSE <<>>

from_split(attrs) ==
    from_attrs(Len(attrs), int(field(attrs, 1)), strip(field(attrs, 2)),
               strip(field(attrs, 3)), int(field(attrs, 4)), dec(field(attrs, 5)))

\* Produto.from_csv
from_csv(txt_csv) == from_split(split(txt_csv, ","))

join(a, b) == a \o <<",">> \o b

\* a variant of string with the last two fields in the wrong order
string_swapped(p) ==
    join(join(join(join(str_int(p.id), p.nome), p.tipo), str_dec(p.preco)),
         str_int(p.quantidade))

\* Produto.string
string(p) ==
    join(join(join(join(str_int(p.id), p.nome), p.tipo), str_int(p.quantidade)),
         str_dec(p.preco))

-----------------------------------------------------------------------------
(* ProductCollection: _prods is a dict keyed by id, which iterates in      *)
(* insertion order; it is modelled as the sequence of its values.          *)

Ids(prods) == {prods[i].id : i \in 1..Len(prods)}

\* a variant of append that overwrites the member with the same id
append_overwrite(prods, prod) ==
    [err |-> "none",
     prods |-> IF prod.id \in Ids(prods)
               THEN [i \in 1..Len(prods) |->
                        IF prods[i].id = prod.id THEN prod ELSE prods[i]]
               ELSE Append(prods, prod)]

\* ProductCollection.append
append(prods, prod) ==
    IF prod.id \in Ids(prods)
    THEN [err |-> "DuplicateValue", prods |-> prods]
    ELSE [err |-> "none", prods |-> Append(prods, prod)]

\* ProductCollection.pesquisa_por_id: dict.get, <<>> standing for None
pesquisa_por_id(prods, id_) ==
    IF id_ \in Ids(prods)
    THEN <<prods[CHOOSE i \in 1..Len(prods) : prods[i].id = id_]>>
    ELSE <<>>

\* the predicates handed to pesquisa
Criterios == {"tipo_FRL", "qtd_ge_5", "todos", "nenhum"}

criterio_holds(criterio, prod) ==
    CASE criterio = "tipo_FRL" -> prod.tipo = <<"F","R","L">>
      [] criterio = "qtd_ge_5" -> prod.quantidade >= 5
      [] criterio = "todos" -> TRUE
      [] OTHER -> FALSE

RECURSIVE pesquisa_loop(_, _, _)
pesquisa_loop(rest, criterio, enc) ==
    IF rest = <<>> THEN enc
    ELSE pesquisa_loop(Tail(rest), criterio,
                       IF criterio_holds(criterio, Head(rest))
                       THEN append(enc, Head(rest)).prods
                       ELSE enc)

\* a variant of pesquisa that stops at the first member found
pesquisa_first(prods, criterio) ==
    LET all == pesquisa_loop(prods, criterio, <<>>)
    IN  IF all = <<>> THEN <<>> ELSE <<Head(all)>>

\* ProductCollection.pesquisa: the _prods of the new collection
pesquisa(prods, criterio) == pesquisa_loop(prods, criterio, <<>>)

\* a variant of eliminar that accepts an absent id silently
eliminar_silent(prods, id_) ==
    [err |-> "none", prods |-> SelectSeq(prods, LAMBDA p : p.id # id_)]

\* ProductCollection.eliminar (its argument is the id, the dict's key)
eliminar(prods, id_) ==
    IF id_ \notin Ids(prods)
    THEN [err |-> "FileNotFound", prods |-> prods]
    ELSE [err |-> "none", prods |-> SelectSeq(prods, LAMBDA p : p.id # id_)]

\* ProductCollection.grava: appends every member's record to self.list,
\* which is never reset, and returns self.list
RECURSIVE grava(_, _)
grava(prods, list) ==
    IF prods = <<>> THEN list
    ELSE grava(Tail(prods), list \o string(Head(prods)) \o <<"\n">>)

-----------------------------------------------------------------------------
(* The calls explored *)

NoCall == [op |-> "none", arg |-> <<>>, err |-> "none", val |-> <<>>]

\* arguments of the constructor
CtorIds == {-4000, 9999, 10000, 99999, 100000}
CtorNomes == {<<>>, <<" ">>, <<"a">>, <<" ","a">>, <<"a"," ","b">>, <<"a",",","b">>}
CtorTipos == {<<"F","R","L">>, <<"A","l">>, <<"X","X">>, <<>>}
CtorQtds == {-1, 0, 10}
CtorPrecoTexts ==
    {<<"1",".","5">>, <<"1",".","5","0">>, <<"0">>, <<"-","0">>, <<"-","1",".","5">>,
     <<"0",".","0","0","0","0","0","0","1">>, <<"1","E","+","2">>,
     <<"I","n","f","i","n","i","t","y">>}
CtorPrecos == {dec(t).val : t \in CtorPrecoTexts}

\* the products the constructor accepts among these
Accepted ==
    {Produto(i, n, t, q, p).prod :
        <<i, n, t, q, p>> \in
            {a \in CtorIds \X CtorNomes \X CtorTipos \X CtorQtds \X CtorPrecos :
                Produto(a[1], a[2], a[3], a[4], a[5]).err = "none"}}

\* records handed to from_csv: one to six fields
CsvIds == {<<"4","0","0","0","1">>, <<"4","0","0","0">>, <<"x">>}
CsvNomes == {<<" ","a","b">>, <<>>}
CsvTipos == {<<"f","r","l">>, <<"X","X">>}
CsvQtds == {<<"1","0">>, <<"x">>}
CsvPrecos == {<<"1",".","5">>, <<"a","b","c">>, <<"N","a","N">>, <<"1","E","-","7">>}
CsvExtras == {<<"9">>, <<>>}

CsvRecords ==
    LET five == {join(join(join(join(a[1], a[2]), a[3]), a[4]), a[5]) :
                    a \in CsvIds \X CsvNomes \X CsvTipos \X CsvQtds \X CsvPrecos}
        four == {join(join(join(a[1], a[2]), a[3]), a[4]) :
                    a \in CsvIds \X CsvNomes \X CsvTipos \X CsvQtds}
        one == CsvIds
        six == {join(r, x) : r \in five, x \in CsvExtras}
    IN  five \cup four \cup one \cup six

\* members of the catalogue in the collection's own operations
P1 == Produto(40001, <<"a","b">>, <<"F","R","L">>, 10, dec(<<"1",".","5">>).val).prod
P1b == Produto(40001, <<"c">>, <<"a","l">>, 0, dec(<<"2">>).val).prod
P2 == Produto(40002, <<"d">>, <<"d","l">>, 5, dec(<<"0",".","5","0">>).val).prod
P3 == Produto(40003, <<"e">>, <<"f","r","l">>, 2, dec(<<"3">>).val).prod

CollProds == {P1, P1b, P2}
PesqProds == {P1, P1b, P2, P3}
CollIds == {40001, 40002, 40003}

-----------------------------------------------------------------------------
(* Produto: the constructor, from_csv and string as calls *)

InitLib ==
    /\ produtos = <<>>
    /\ lista = <<>>
    /\ encontrados = <<>>
    /\ fich = <<>>
    /\ pc = "lib"
    /\ ngrava = 0
    /\ ret = NoCall

\* the calls are independent of one another: each behaviour makes one
CallProduto ==
    /\ ret = NoCall
    /\ \E a \in CtorIds \X CtorNomes \X CtorTipos \X CtorQtds \X CtorPrecos :
        LET r == Produto(a[1], a[2], a[3], a[4], a[5])
        IN  /\ ret' = [op |-> "Produto", arg |-> a, err |-> r.err, val |-> r.prod]
            /\ UNCHANGED <<produtos, lista, encontrados, fich, pc, ngrava>>

CallFromCsv ==
    /\ ret = NoCall
    /\ \E txt \in CsvRecords :
        LET r == from_csv(txt)
        IN  /\ ret' = [op |-> "from_csv", arg |-> txt, err |-> r.err, val |-> r.prod]
            /\ UNCHANGED <<produtos, lista, encontrados, fich, pc, ngrava>>

\* from_csv applied to the string of a product the constructor accepted
CallRoundTrip ==
    /\ ret = NoCall
    /\ \E p \in Accepted :
        LET r == from_csv(string(p))
        IN  /\ ret' = [op |-> "roundtrip", arg |-> p, err |-> r.err, val |-> r.prod]
            /\ UNCHANGED <<produtos, lista, encontrados, fich, pc, ngrava>>

NextProduto == CallProduto \/ CallFromCsv \/ CallRoundTrip

SpecProduto == InitLib /\ [][NextProduto]_vars

-----------------------------------------------------------------------------
(* ProductCollection: its operations as calls on the catalogue *)

DoAppend(prod) ==
    LET r == append(produtos, prod)
    IN  /\ produtos' = r.prods
        /\ ret' = [op |-> "append", arg |-> prod, err |-> r.err, val |-> <<>>]
        /\ UNCHANGED <<lista, encontrados, fich, pc, ngrava>>

DoEliminar(id_) ==
    LET r == eliminar(produtos, id_)
    IN  /\ produtos' = r.prods
        /\ ret' = [op |-> "eliminar", arg |-> id_, err |-> r.err, val |-> <<>>]
        /\ UNCHANGED <<lista, encontrados, fich, pc, ngrava>>

CollAppend == \E prod \in CollProds : DoAppend(prod)

CollEliminar == \E id_ \in CollIds : DoEliminar(id_)

PesquisaPorId ==
    \E id_ \in CollIds :
        /\ ret' = [op |-> "pesquisa_por_id", arg |-> id_, err |-> "none",
                   val |-> pesquisa_por_id(produtos, id_)]
        /\ UNCHANGED <<produtos, lista, encontrados, fich, pc, ngrava>>

Grava ==
    /\ ngrava < MaxGrava
    /\ lista' = grava(produtos, lista)
    /\ ngrava' = ngrava + 1
    /\ ret' = [op |-> "grava", arg |-> <<>>, err |-> "none", val |-> lista']
    /\ UNCHANGED <<produtos, encontrados, fich, pc>>

NextColl == CollAppend \/ CollEliminar \/ PesquisaPorId \/ Grava

SpecColl == InitLib /\ [][NextColl]_vars

-----------------------------------------------------------------------------
(* pesquisa, and the collection it returns *)

AppendFonte == \E prod \in PesqProds : DoAppend(prod)

EliminarFonte == \E id_ \in CollIds : DoEliminar(id_)

Pesquisa ==
    \E criterio \in Criterios :
        /\ encontrados' = pesquisa(produtos, criterio)
        /\ ret' = [op |-> "pesquisa", arg |-> criterio, err |-> "none", val |-> <<>>]
        /\ UNCHANGED <<produtos, lista, fich, pc, ngrava>>

\* append on the collection pesquisa returned
EncAppend ==
    \E prod \in PesqProds :
        LET r == append(encontrados, prod)
        IN  /\ encontrados' = r.prods
            /\ ret' = [op |-> "enc.append", arg |-> prod, err |-> r.err, val |-> <<>>]
            /\ UNCHANGED <<produtos, lista, fich, pc, ngrava>>

\* eliminar on the collection pesquisa returned
EncEliminar ==
    \E id_ \in CollIds :
        LET r == eliminar(encontrados, id_)
        IN  /\ encontrados' = r.prods
            /\ ret' = [op |-> "enc.eliminar", arg |-> id_, err |-> r.err, val |-> <<>>]
            /\ UNCHANGED <<produtos, lista, fich, pc, ngrava>>

NextPesquisa == AppendFonte \/ EliminarFonte \/ Pesquisa \/ EncAppend \/ EncEliminar

SpecPesquisa == InitLib /\ [][NextPesquisa]_vars

-----------------------------------------------------------------------------
(* The loader *)

\* iteration over a text file: its lines, each with its line break
RECURSIVE readlines(_)
readlines(text) ==
    IF text = <<>> THEN <<>>
    ELSE IF count(text, "\n") = 0 THEN <<text>>
    ELSE <<SubSeq(text, 1, index(text, "\n"))>>
            \o readlines(SubSeq(text, index(text, "\n") + 1, Len(text)))

\* linhas_relevantes: blank lines and lines starting with '#' are skipped
linhas_relevantes(text) ==
    SelectSeq(readlines(text), LAMBDA linha : strip(linha) # <<>> /\ linha[1] # "#")

\* produtos.append(prod) for the result p of from_csv, unless it raised
append_parsed(prods, p) ==
    IF p.err # "none" THEN [err |-> p.err, prods |-> prods]
    ELSE append(prods, p.prod)

\* the loop of le_produtos: r is the outcome of the lines read so far
RECURSIVE le_loop(_, _)
le_loop(linhas, r) ==
    IF linhas = <<>> \/ r.err # "none" THEN r
    ELSE le_loop(Tail(linhas), append_parsed(r.prods, from_csv(Head(linhas))))

\* le_produtos: every relevant line is parsed and appended; the first
\* exception ends the load and is not handled
le_produtos(text, prods) ==
    le_loop(linhas_relevantes(text), [err |-> "none", prods |-> prods])

-----------------------------------------------------------------------------
(* The menu shell *)

\* the price as typed, with its comma replaced by '.' when it has exactly one
normaliza(new_prod5) ==
    IF count(new_prod5, ",") = 1
    THEN SubSeq(new_prod5, 1, index(new_prod5, ",") - 1) \o <<".">>
            \o SubSeq(new_prod5, index(new_prod5, ",") + 1, Len(new_prod5))
    ELSE new_prod5

join_sp(a, b) == a \o <<",", " ">> \o b

\* the except clauses of exec_adicionar (InvalidOperation is the module's
\* own class, not decimal.InvalidOperation)
adicionar_catches(err) ==
    \/ isinstance(err, "InvalidProdAttribute")
    \/ isinstance(err, "ValueError")
    \/ isinstance(err, "InvalidOperation")

\* the messages and the except clauses of exec_adicionar, for the outcome r
\* of its try block: the exception raised ("none" when there is none), the
\* message shown, the catalogue afterwards and where the program is then
adicionar_outcome(r) ==
    IF r.err = "none"
    THEN [err |-> "none", msg |-> "Produto adicionado.", prods |-> r.prods, pc |-> "menu"]
    ELSE IF adicionar_catches(r.err)
    THEN [err |-> r.err, msg |-> "err", prods |-> r.prods, pc |-> "menu"]
    ELSE [err |-> r.err, msg |-> "", prods |-> r.prods, pc |-> "crashed"]

\* exec_adicionar once new_prod_func has the five answers f: an empty one
\* opens the menu again, else the record is built, parsed and appended
adicionar_fields(prods, f) ==
    IF <<>> \in Range(f)
    THEN [err |-> "none", msg |-> "campos obrigatorios", prods |-> prods, pc |-> "menu"]
    ELSE adicionar_outcome(
            append_parsed(prods,
                from_csv(join_sp(join_sp(join_sp(join_sp(f[1], f[2]), f[3]), f[4]), f[5]))))

\* exec_adicionar on the five answers typed
exec_adicionar(prods, new_prod1, new_prod2, new_prod3, new_prod4, new_prod5) ==
    adicionar_fields(prods,
        <<new_prod1, new_prod2, new_prod3, new_prod4, normaliza(new_prod5)>>)

\* the except clause of exec_eliminar, for the outcome r of eliminar
eliminar_outcome(r) ==
    IF r.err = "none"
    THEN [err |-> "none", msg |-> "eliminado", prods |-> r.prods, pc |-> "menu"]
    ELSE [err |-> r.err, msg |-> "err", prods |-> r.prods, pc |-> "menu"]

\* exec_eliminar on the answer typed: int() is outside the try
exec_eliminar(prods, answer) ==
    IF ~int(answer).ok
    THEN [err |-> "ValueError", msg |-> "", prods |-> prods, pc |-> "crashed"]
    ELSE eliminar_outcome(eliminar(prods, int(answer).val))

\* the files 'produtos.csv' the program may start with
InitialFiles ==
    { <<>>,
      <<"#"," ","c","\n","\n",
        "4","0","0","0","1",",","a","b",",","f","r","l",",","1","0",",","1",".","5","\n">>,
      <<"4","0","0","0","1",",","a","b",",","F","R","L",",","1","0",",","1",".","5","\n",
        "4","0","0","0","1",",","c",",","A","L",",","0",",","2","\n">> }

\* the answers typed at the prompts of the add command:
\* <<id, name, type, quantity, price>>
AddAnswers ==
    LET id1 == <<"4","0","0","0","1">>
        id2 == <<"4","0","0","0","2">>
        nome == <<"a","b">>
        tipo == <<"f","r","l">>
        qtd == <<"1","0">>
        p1 == <<"1",",","5">>
        p2 == <<"1",",","5",",","0">>
    IN  { <<id1, nome, tipo, qtd, p1>>, <<id1, nome, tipo, qtd, p2>>,
          <<id2, nome, tipo, qtd, p1>>,
          <<id2, nome, <<"X","X">>, qtd, p1>>,
          <<id2, nome, tipo, qtd, <<"a","b","c">>>>,
          <<id2, nome, tipo, qtd, <<"-","1">>>>,
          <<id2, nome, tipo, <<"x">>, p1>>,
          <<id2, <<>>, tipo, qtd, p1>> }
IdAnswers == {<<"4","0","0","0","1">>, <<"4","0","0","0","2">>, <<"x">>}
PesquisaAnswers == {<<"4","0","0","0","1">>, <<"x">>}

Init ==
    /\ produtos = <<>>
    /\ lista = <<>>
    /\ encontrados = <<>>
    /\ fich \in InitialFiles
    /\ pc = "start"
    /\ ngrava = 0
    /\ ret = NoCall

\* main: the catalogue is loaded, then the menu runs
Main ==
    /\ pc = "start"
    /\ LET r == le_produtos(fich, produtos)
       IN  /\ produtos' = r.prods
           /\ pc' = IF r.err = "none" THEN "menu" ELSE "crashed"
           /\ ret' = [op |-> "main", arg |-> <<>>, err |-> r.err, val |-> ""]
    /\ UNCHANGED <<lista, encontrados, fich, ngrava>>

ExecListar ==
    /\ pc = "menu"
    /\ ret' = [op |-> "listar", arg |-> <<>>, err |-> "none", val |-> ""]
    /\ UNCHANGED <<produtos, lista, encontrados, fich, pc, ngrava>>

ExecPesquisar ==
    /\ pc = "menu"
    /\ \E answer \in PesquisaAnswers :
        /\ pc' = IF int(answer).ok THEN "menu" ELSE "crashed"
        /\ ret' = [op |-> "pesquisar", arg |-> answer,
                   err |-> IF int(answer).ok THEN "none" ELSE "ValueError",
                   val |-> ""]
    /\ UNCHANGED <<produtos, lista, encontrados, fich, ngrava>>

ExecAdicionar ==
    /\ pc = "menu"
    /\ \E a \in AddAnswers :
        LET r == exec_adicionar(produtos, a[1], a[2], a[3], a[4], a[5])
        IN  /\ produtos' = r.prods
            /\ pc' = r.pc
            /\ ret' = [op |-> "adicionar", arg |-> a[5], err |-> r.err, val |-> r.msg]
    /\ UNCHANGED <<lista, encontrados, fich, ngrava>>

ExecEliminar ==
    /\ pc = "menu"
    /\ \E answer \in IdAnswers :
        LET r == exec_eliminar(produtos, answer)
        IN  /\ produtos' = r.prods
            /\ pc' = r.pc
            /\ ret' = [op |-> "eliminar", arg |-> answer, err |-> r.err, val |-> r.msg]
    /\ UNCHANGED <<lista, encontrados, fich, ngrava>>

\* exec_guardar: the text grava returns overwrites the file
ExecGuardar ==
    /\ pc = "menu"
    /\ ngrava < MaxGrava
    /\ lista' = grava(produtos, lista)
    /\ fich' = lista'
    /\ ngrava' = ngrava + 1
    /\ ret' = [op |-> "guardar", arg |-> <<>>, err |-> "none", val |-> ""]
    /\ UNCHANGED <<produtos, encontrados, pc>>

OpcaoInvalida ==
    /\ pc = "menu"
    /\ ret' = [op |-> "invalida", arg |-> <<>>, err |-> "none", val |-> ""]
    /\ UNCHANGED <<produtos, lista, encontrados, fich, pc, ngrava>>

\* option T: sys.exit(0)
Terminar ==
    /\ pc = "menu"
    /\ pc' = "exited"
    /\ ret' = [op |-> "terminar", arg |-> <<>>, err |-> "none", val |-> ""]
    /\ UNCHANGED <<produtos, lista, encontrados, fich, ngrava>>

\* exec_menu: one option per turn of the loop
exec_menu ==
    \/ ExecListar
    \/ ExecPesquisar
    \/ ExecAdicionar
    \/ ExecEliminar
    \/ ExecGuardar
    \/ OpcaoInvalida
    \/ Terminar

Next == Main \/ exec_menu

Spec == Init /\ [][Next]_vars

-----------------------------------------------------------------------------
(* Properties of ProductCollection *)

NoDuplicateIds(prods) ==
    \A i, j \in 1..Len(prods) : prods[i].id = prods[j].id => i = j

\* prods without its i-th member
Without(prods, i) == SubSeq(prods, 1, i - 1) \o SubSeq(prods, i + 1, Len(prods))

\* the records of the members, one per line
RECURSIVE Records(_)
Records(prods) ==
    IF prods = <<>> THEN <<>>
    ELSE string(Head(prods)) \o <<"\n">> \o Records(Tail(prods))

\* C1: no two members of the catalogue ever share an id; an append of a
\* product whose id is present fails with DuplicateValue and leaves the
\* members, their order and the product found under that id as they were.
C1_UniqueIds ==
    [][/\ NoDuplicateIds(produtos')
       /\ (ret'.op = "append" /\ ret'.arg.id \in Ids(produtos)) =>
            /\ ret'.err = "DuplicateValue"
            /\ produtos' = produtos
            /\ pesquisa_por_id(produtos', ret'.arg.id)
                 = pesquisa_por_id(produtos, ret'.arg.id)]_vars

\* a duplicate append was refused while another product holds the id
C1_Witness ==
    /\ ret.op = "append"
    /\ ret.err = "DuplicateValue"
    /\ Len(produtos) = 2
    /\ pesquisa_por_id(produtos, ret.arg.id) # <<ret.arg>>

\* C2: every grava returns exactly the records of the current members in
\* insertion order, each followed by one line break (the empty text for an
\* empty catalogue).
C2_GravaExact ==
    ret.op = "grava" => ret.val = Records(produtos)

\* C3: eliminar of a present id removes exactly that member, keeping the
\* others and their order, after which the id is not found and a second
\* eliminar fails; eliminar of an absent id fails with the not-found
\* exception and leaves the catalogue as it was.
C3_Eliminar ==
    [][ret'.op = "eliminar" =>
         IF ret'.arg \in Ids(produtos)
         THEN /\ ret'.err = "none"
              /\ \E i \in 1..Len(produtos) :
                    /\ produtos[i].id = ret'.arg
                    /\ produtos' = Without(produtos, i)
              /\ pesquisa_por_id(produtos', ret'.arg) = <<>>
              /\ eliminar(produtos', ret'.arg).err = "FileNotFound"
         ELSE /\ ret'.err = "FileNotFound"
              /\ produtos' = produtos]_vars

\* an eliminar of an absent id was refused on a catalogue with members
C3_Witness ==
    /\ ret.op = "eliminar"
    /\ ret.err = "FileNotFound"
    /\ Len(produtos) = 2

\* C8: pesquisa returns a new collection holding exactly the members the
\* predicate holds of, in the source's order; the source is unchanged by the
\* call and by later append and eliminar calls on the returned collection.
C8_Pesquisa ==
    [][/\ ret'.op = "pesquisa" =>
            /\ encontrados' = SelectSeq(produtos, LAMBDA p : criterio_holds(ret'.arg, p))
            /\ Ids(encontrados') \subseteq Ids(produtos)
            /\ produtos' = produtos
       /\ ret'.op \in {"enc.append", "enc.eliminar"} => produtos' = produtos]_vars

\* a search kept the first and the last of three members
C8_Witness ==
    /\ ret.op = "pesquisa"
    /\ Len(produtos) = 3
    /\ Len(encontrados) = 2
    /\ encontrados = <<produtos[1], produtos[3]>>

-----------------------------------------------------------------------------
(* Properties of Produto *)

\* the conditions the constructor is specified to check
DecGe0(d) == d.special \notin {"n", "N"} /\ (d.sign = 0 \/ (d.special = "" /\ d.int = <<"0">>))

ValidArgs(a) ==
    /\ 10000 <= a[1] /\ a[1] <= 99999
    /\ strip(a[2]) # <<>>
    /\ upper(a[3]) \in PRODUCT_TYPES
    /\ a[4] >= 0
    /\ DecGe0(a[5])

\* C6: the constructor succeeds exactly when the id has 5 digits and is not
\* negative, the name is not empty after trimming, the upper-cased type is
\* in the table, and quantity and price are not negative; it then stores the
\* upper-cased type and the other values as supplied, and otherwise fails
\* with InvalidProdAttribute.
C6_Construct ==
    ret.op = "Produto" =>
        IF ValidArgs(ret.arg)
        THEN /\ ret.err = "none"
             /\ ret.val = [id |-> ret.arg[1], nome |-> ret.arg[2],
                           tipo |-> upper(ret.arg[3]), quantidade |-> ret.arg[4],
                           preco |-> ret.arg[5]]
        ELSE ret.err = "InvalidProdAttribute"

\* a record is malformed when it has not exactly 5 fields or when its id,
\* quantity or price field is not a number
Malformed(txt) ==
    LET a == split(txt, ",")
    IN  \/ Len(a) # 5
        \/ ~int(a[1]).ok
        \/ ~int(a[4]).ok
        \/ ~dec(a[5]).ok
        \/ dec(a[5]).val.special # ""

\* the exceptions the callers' handlers for invalid products catch
Handled(err) == isinstance(err, "InvalidProdAttribute") \/ isinstance(err, "ValueError")

\* C7: from_csv fails, with an exception of the validation family its
\* callers handle, on every record that has not exactly 5 fields or has a
\* non-numeric id, quantity or price.
C7_ParseFailure ==
    (ret.op = "from_csv" /\ Malformed(ret.arg)) =>
        (ret.err # "none" /\ Handled(ret.err))

CleanName(nome) == count(nome, ",") = 0 /\ strip(nome) = nome

\* C5 as stated: from_csv(string(p)) succeeds and equals p for every
\* product p the constructor accepts.
C5_RoundTripAll ==
    ret.op = "roundtrip" => (ret.err = "none" /\ ret.val = ret.arg)

\* C5: from_csv(string(p)) succeeds and equals p, field by field, for every
\* product p the constructor accepts whose name holds no comma and no
\* leading or trailing whitespace.
C5_RoundTrip ==
    (ret.op = "roundtrip" /\ CleanName(ret.arg.nome)) =>
        (ret.err = "none" /\ ret.val = ret.arg)

\* a product with a price below 1E-6, written in scientific notation, made
\* the round trip
C5_Witness ==
    /\ ret.op = "roundtrip"
    /\ CleanName(ret.arg.nome)
    /\ ret.arg.preco.exp < -6
    /\ ret.val = ret.arg

-----------------------------------------------------------------------------
(* Properties of the shell *)

\* C4: the text a save writes, read back by the loader into an empty
\* collection, loads without failure and gives the members of the catalogue
\* at that save, equal field by field and in the same order.
C4_SaveLoad ==
    ret.op = "guardar" =>
        LET r == le_produtos(fich, <<>>)
        IN  r.err = "none" /\ r.prods = produtos

\* C9: in the add command a price typed with exactly one comma is parsed
\* with the comma replaced by '.'; a price typed with more than one comma
\* fails numeric parsing and no product is added.
C9_PriceCommas ==
    [][ret'.op = "adicionar" =>
        /\ (count(ret'.arg, ",") = 1 /\ ret'.val = "Produto adicionado.") =>
                produtos'[Len(produtos')].preco = dec(normaliza(ret'.arg)).val
        /\ count(ret'.arg, ",") > 1 =>
                (ret'.err # "none" /\ produtos' = produtos)]_vars

\* C10: an add command that fails in the core (validation, parsing or a
\* duplicate id) shows the failure, leaves the catalogue as it was and
\* returns to the menu; the program does not end.
C10_AddFailureRecovers ==
    [][(ret'.op = "adicionar" /\ ret'.err # "none") =>
        /\ ret'.val = "err"
        /\ produtos' = produtos
        /\ pc' = "menu"]_vars

=============================================================================
